---- MODULE Spec2Model ----
(***************************************************************************)
(* Model of the two Lambda engines of the repository:                      *)
(*   cost_optimizer.py     (cost-optimization handler and its five checks) *)
(*   workspace_manager.py  (workspace handler, resource checks, health     *)
(*                          validators, recommendations, status write)     *)
(* Strings built with f-strings are modelled as records: kind names the    *)
(* message template, id the resource it is about, txt/nums/tags the values *)
(* substituted into it.                                                    *)
(***************************************************************************)
EXTENDS Integers, Sequences, FiniteSets, TLC

VARIABLES
  uIn,      \* utilization check: the describe_instances / metrics responses
  uOut,     \* utilization check: the FindingSet returned (NoResult before)
  hKind,    \* health validator applied: "vpc", "asg", "s3" ("idle": none)
  hSnap,    \* health validator: the resource snapshot it is given
  hWs,      \* health validator: the workspace name (tier)
  hOut,     \* health validator: the HealthVerdict returned (NoVerdict before)
  variant,  \* handler invoked: "cost" (cost_optimizer) or "ws" (workspace_manager)
  pc,       \* position of the handler
  ctx,      \* the execution context passed to the handler
  locals,   \* the handler's local identity variables (Unbound before assignment)
  report,   \* optimization_results / workspace_info being built
  raised,   \* text of the exception being handled by the handler ("": none)
  response, \* what the handler returned (NoResponse before)
  paramStore, \* parameter store: the log of put_parameter writes
  inv,      \* the inventory responses each check module received
  cKind,    \* function applied on its own: "tagging", "anomaly", "storage",
            \* "utilization", "autoscaling", "recommend" ("idle": none)
  cIn,      \* the inputs the function is applied to
  cOut      \* what the function returned, one entry per call

utilVars == <<uIn, uOut>>
healthVars == <<hKind, hSnap, hWs, hOut>>
handlerVars == <<variant, pc, ctx, locals, report, raised, response, paramStore, inv>>
checkVars == <<cKind, cIn, cOut>>
vars == <<utilVars, healthVars, handlerVars, checkVars>>

NoResult == [category |-> "none"]
NoVerdict == [status |-> "none"]
\* dict.get() of a key that was never set (Python None)
Absent == "<absent>"
\* a local variable that was never assigned
Unbound == "<unbound>"
NoResponse == [statusCode |-> 0]
NoReport == [timestamp |-> "none"]
EmptyMap == [k \in {} |-> TRUE]

\* ---------------------------------------------------------------- bounds
MaxInst == 2        \* instances in one describe_instances response
MaxSubnets == 2     \* subnets in one VPC snapshot
MaxGroups == 2      \* autoscaling groups in one autoscaling snapshot
MaxItems == 1       \* items in one inventory response of a handler run
MaxTagged == 2      \* instances in one response given to the tagging check
MaxCalls == 2       \* calls of generate_recommendations on one Report

\* ------------------------------------------------------ program constants
LowCpuThreshold == 10
HighCpuThreshold == 80
T3Savings == 20
OversizedAbove == 2
ScheduledScalingSavings == 50
LifecycleSavings == 30
OldObjectDays == 30
BusinessStartHour == 8
BusinessEndHour == 18
OffHoursSavings == 25
MaxKeys == 1000
LowIpThreshold == 10
ProdMinSize == 2
ProdMinZones == 2
DevMaxInstances == 2
ProdMinInstances == 3

\* ------------------------------------------------------------- messages
Msg(kind, id, txt, nums, tags) ==
  [kind |-> kind, id |-> id, txt |-> txt, nums |-> nums, tags |-> tags]

ErrorFinding(kind, text) == Msg(kind, 0, text, <<>>, <<>>)

Kinds(msgs) == [i \in 1..Len(msgs) |-> msgs[i].kind]

RECURSIVE SeqSum(_)
SeqSum(s) ==
  IF Len(s) = 0 THEN 0
  ELSE IF Len(s) = 1 THEN s[1]
  ELSE LET h == Len(s) \div 2
       IN SeqSum(SubSeq(s, 1, h)) + SeqSum(SubSeq(s, h + 1, Len(s)))

SeqsUpTo(S, n) == UNION {[1..k -> S] : k \in 0..n}

\* A function call that ends by raising returns Raised(text); a FindingSet
\* never has this category.
Raised(text) == [category |-> "<raised>", text |-> text]
IsRaised(r) == r.category = "<raised>"

NewOptimization(category) ==
  [category |-> category, findings |-> <<>>, recommendations |-> <<>>,
   potential_savings |-> 0]

\* ===================================================== cost_optimizer.py
\* ------------------------------------------- check_instance_utilization
\* avg_cpu = sum(...) / len(...) compared with a threshold; the datapoints
\* are whole percentages, so avg < t  <=>  sum < t * len.
AvgBelow(dps, t) == SeqSum(dps) < t * Len(dps)
AvgAbove(dps, t) == SeqSum(dps) > t * Len(dps)

\* instance_type.startswith('t3.')
IsT3(itype) == itype \in {"t3.micro", "t3.small"}

\* mutant: the savings estimate is added for every low-utilization instance
ProcessInstance_AnyType(o, inst) ==
  IF inst.cpu.fault THEN [opt |-> o, exc |-> inst.cpu.err]
  ELSE IF inst.cpu.dps = <<>> THEN [opt |-> o, exc |-> ""]
  ELSE IF AvgBelow(inst.cpu.dps, LowCpuThreshold) THEN
    [opt |-> [o EXCEPT
        !.findings = Append(@, Msg("low_cpu", inst.id, inst.itype, <<>>, <<>>)),
        !.recommendations = Append(@, Msg("downsize", inst.id, "", <<>>, <<>>)),
        !.potential_savings = @ + T3Savings],
     exc |-> ""]
  ELSE IF AvgAbove(inst.cpu.dps, HighCpuThreshold) THEN
    [opt |-> [o EXCEPT
        !.findings = Append(@, Msg("high_cpu", inst.id, inst.itype, <<>>, <<>>)),
        !.recommendations = Append(@, Msg("upsize", inst.id, "", <<>>, <<>>))],
     exc |-> ""]
  ELSE [opt |-> o, exc |-> ""]

\* One iteration of the loop body (lines 98-131) for one instance.  The
\* result carries the exception text raised inside the iteration ("" when
\* none): get_metric_statistics failing or a malformed instance/metric
\* record, all of which happen before the first append of the iteration.
ProcessInstance(o, inst) ==
  IF inst.cpu.fault THEN [opt |-> o, exc |-> inst.cpu.err]
  ELSE IF inst.cpu.dps = <<>> THEN [opt |-> o, exc |-> ""]
  ELSE IF AvgBelow(inst.cpu.dps, LowCpuThreshold) THEN
    [opt |-> [o EXCEPT
        !.findings = Append(@, Msg("low_cpu", inst.id, inst.itype, <<>>, <<>>)),
        !.recommendations = Append(@, Msg("downsize", inst.id, "", <<>>, <<>>)),
        !.potential_savings = IF IsT3(inst.itype) THEN @ + T3Savings ELSE @],
     exc |-> ""]
  ELSE IF AvgAbove(inst.cpu.dps, HighCpuThreshold) THEN
    [opt |-> [o EXCEPT
        !.findings = Append(@, Msg("high_cpu", inst.id, inst.itype, <<>>, <<>>)),
        !.recommendations = Append(@, Msg("upsize", inst.id, "", <<>>, <<>>))],
     exc |-> ""]
  ELSE [opt |-> o, exc |-> ""]

\* The two nested for loops (reservations, instances) visit the instances of
\* the response in order; the response is modelled as that flat sequence.
RECURSIVE UtilLoop(_, _)
UtilLoop(o, insts) ==
  IF insts = <<>> THEN [opt |-> o, exc |-> ""]
  ELSE LET r == ProcessInstance(o, Head(insts))
       IN IF r.exc # "" THEN r ELSE UtilLoop(r.opt, Tail(insts))

check_instance_utilization(resp) ==
  LET optimization == NewOptimization("EC2 Instance Utilization")
      r == IF resp.fault THEN [opt |-> optimization, exc |-> resp.err]
           ELSE UtilLoop(optimization, resp.items)
  IN IF r.exc # "" THEN
       [r.opt EXCEPT !.findings = Append(@, ErrorFinding("util_error", r.exc))]
     ELSE IF r.opt.findings = <<>> THEN
       [r.opt EXCEPT !.findings = Append(@, Msg("util_ok", 0, "", <<>>, <<>>))]
     ELSE r.opt

\* ------------------------------------------------- check_asg_efficiency
\* next((tag for tag in asg.get('Tags', []) if tag['Key'] == 'Project'), None)
\* is modelled by asg.project: the value of the first Project tag, or Absent
AsgInProject(asg, project_name) ==
  asg.project # Absent /\ asg.project = project_name

\* One iteration of the loop body (lines 156-182).  asg.malformed is a group
\* record lacking a key read at lines 156-165 (raises before any append);
\* asg.sched is the outcome of describe_scheduled_actions for the group.
ProcessAsg(o, asg, project_name) ==
  IF asg.malformed THEN [opt |-> o, exc |-> "KeyError"]
  ELSE IF ~AsgInProject(asg, project_name) THEN [opt |-> o, exc |-> ""]
  ELSE
    LET o1 == [o EXCEPT !.findings =
                 Append(@, Msg("asg_capacity", asg.name, "",
                               <<asg.desired, asg.min_size, asg.max_size>>, <<>>))]
        o2 == IF asg.desired = asg.max_size /\ asg.max_size > OversizedAbove
              THEN [o1 EXCEPT !.recommendations =
                      Append(@, Msg("asg_oversized", asg.name, "", <<>>, <<>>))]
              ELSE o1
    IN IF asg.sched.fault THEN [opt |-> o2, exc |-> asg.sched.err]
       ELSE IF asg.sched.actions = 0 THEN
         [opt |-> [o2 EXCEPT
             !.recommendations =
                Append(@, Msg("add_scheduled_scaling", asg.name, "", <<>>, <<>>)),
             !.potential_savings = @ + ScheduledScalingSavings],
          exc |-> ""]
       ELSE
         [opt |-> [o2 EXCEPT !.findings =
                     Append(@, Msg("asg_has_schedule", asg.name, "", <<>>, <<>>))],
          exc |-> ""]

RECURSIVE AsgEfficiencyLoop(_, _, _)
AsgEfficiencyLoop(o, groups, project_name) ==
  IF groups = <<>> THEN [opt |-> o, exc |-> ""]
  ELSE LET r == ProcessAsg(o, Head(groups), project_name)
       IN IF r.exc # "" THEN r
          ELSE AsgEfficiencyLoop(r.opt, Tail(groups), project_name)

check_asg_efficiency(resp, project_name) ==
  LET optimization == NewOptimization("Auto Scaling Group Efficiency")
      r == IF resp.fault THEN [opt |-> optimization, exc |-> resp.err]
           ELSE AsgEfficiencyLoop(optimization, resp.items, project_name)
  IN IF r.exc # "" THEN
       [r.opt EXCEPT !.findings = Append(@, ErrorFinding("asg_error", r.exc))]
     ELSE r.opt

\* -------------------------------------------------- optimize_s3_storage
\* s3.exceptions of the client boto3.client('s3') returns: the exception
\* classes the client defines.  Reading any other attribute of
\* s3.exceptions raises AttributeError.
Boto3S3Exceptions ==
  {"BucketAlreadyExists", "BucketAlreadyOwnedByYou", "InvalidObjectState",
   "NoSuchBucket", "NoSuchKey", "NoSuchUpload",
   "ObjectAlreadyInActiveTierError", "ObjectNotInActiveTierError"}

\* The inner try (lines 201-206).  lc is the outcome of
\* get_bucket_lifecycle_configuration: "rules" (lc.rules of them),
\* "NoSuchLifecycleConfiguration" (the error the provider answers for a
\* bucket without lifecycle configuration) or "fault" (any other
\* exception, which leaves the inner try).  lc.exceptions is s3.exceptions
\* of the client that made the call: the except clause at line 204 catches
\* the error when s3.exceptions defines the class it names, and raises
\* AttributeError while looking the class up otherwise.
LifecycleStep(o, lc) ==
  IF lc.kind = "rules" THEN
    [opt |-> [o EXCEPT !.findings =
                Append(@, Msg("lifecycle_rules", 0, "", <<lc.rules>>, <<>>))],
     exc |-> ""]
  ELSE IF lc.kind = "NoSuchLifecycleConfiguration" THEN
    IF "NoSuchLifecycleConfiguration" \in lc.exceptions THEN
      [opt |-> [o EXCEPT
          !.recommendations = Append(@, Msg("add_lifecycle", 0, "", <<>>, <<>>)),
          !.potential_savings = @ + LifecycleSavings],
       exc |-> ""]
    ELSE [opt |-> o, exc |-> "AttributeError"]
  ELSE [opt |-> o, exc |-> lc.err]

\* old_objects: the objects with age_days > 30 (lines 218-222)
OldObjects(objs) ==
  Cardinality({i \in 1..Len(objs) : objs[i].age_days > OldObjectDays})

\* Lines 209-225.  listing is the outcome of list_objects_v2: a fault, a
\* response without 'Contents' (hasContents FALSE), or the objects returned.
ListingStep(o, listing) ==
  IF listing.fault THEN [opt |-> o, exc |-> listing.err]
  ELSE IF ~listing.hasContents THEN [opt |-> o, exc |-> ""]
  ELSE
    LET objs == listing.contents
        o1 == [o EXCEPT !.findings =
                 Append(@, Msg("bucket_contents", 0, "",
                   <<Len(objs), SeqSum([i \in 1..Len(objs) |-> objs[i].size])>>,
                   <<>>))]
    IN [opt |-> IF OldObjects(objs) > 0
                THEN [o1 EXCEPT !.recommendations =
                        Append(@, Msg("old_objects", 0, "", <<OldObjects(objs)>>, <<>>))]
                ELSE o1,
        exc |-> ""]

\* mutant: no outer try/except, an exception leaves the function
optimize_s3_storage_NoCatch(lc, listing) ==
  LET optimization == NewOptimization("S3 Storage Optimization")
      r1 == LifecycleStep(optimization, lc)
      r == IF r1.exc # "" THEN r1 ELSE ListingStep(r1.opt, listing)
  IN IF r.exc # "" THEN Raised(r.exc) ELSE r.opt

optimize_s3_storage(lc, listing) ==
  LET optimization == NewOptimization("S3 Storage Optimization")
      r1 == LifecycleStep(optimization, lc)
      r == IF r1.exc # "" THEN r1 ELSE ListingStep(r1.opt, listing)
  IN IF r.exc # "" THEN
       [r.opt EXCEPT !.findings = Append(@, ErrorFinding("s3_error", r.exc))]
     ELSE r.opt

\* ---------------------------------------------- check_tagging_compliance
required_tags == <<"Project", "Environment", "CostCenter", "Owner">>

\* mutant: only the first missing tag is listed
MissingTags_FirstOnly(tags) ==
  LET m == SelectSeq(required_tags, LAMBDA t : t \notin tags)
  IN IF m = <<>> THEN <<>> ELSE <<Head(m)>>

\* missing_tags = [tag for tag in required_tags if tag not in tags]
MissingTags(tags) == SelectSeq(required_tags, LAMBDA t : t \notin tags)

\* The loop (lines 249-256): untagged_resources after the instances, or the
\* exception raised by a malformed instance record.
RECURSIVE TaggingLoop(_, _)
TaggingLoop(untagged, insts) ==
  IF insts = <<>> THEN [untagged |-> untagged, exc |-> ""]
  ELSE LET inst == Head(insts) IN
       IF inst.malformed THEN [untagged |-> untagged, exc |-> "KeyError"]
       ELSE TaggingLoop(
              IF MissingTags(inst.tags) # <<>>
              THEN Append(untagged,
                     Msg("missing_tags", inst.id, "", <<>>, MissingTags(inst.tags)))
              ELSE untagged,
              Tail(insts))

\* mutant: no try/except, an exception leaves the function
check_tagging_compliance_NoCatch(resp) ==
  LET optimization == NewOptimization("Tagging Compliance")
      r == IF resp.fault THEN [untagged |-> <<>>, exc |-> resp.err]
           ELSE TaggingLoop(<<>>, resp.items)
  IN IF r.exc # "" THEN Raised(r.exc)
     ELSE IF r.untagged # <<>> THEN
       [optimization EXCEPT
          !.findings = @ \o r.untagged,
          !.recommendations = Append(@, Msg("apply_tags", 0, "", <<>>, <<>>))]
     ELSE
       [optimization EXCEPT
          !.findings = Append(@, Msg("tagging_ok", 0, "", <<>>, <<>>))]

check_tagging_compliance(resp) ==
  LET optimization == NewOptimization("Tagging Compliance")
      r == IF resp.fault THEN [untagged |-> <<>>, exc |-> resp.err]
           ELSE TaggingLoop(<<>>, resp.items)
  IN IF r.exc # "" THEN
       [optimization EXCEPT
          !.findings = Append(@, ErrorFinding("tagging_error", r.exc))]
     ELSE IF r.untagged # <<>> THEN
       [optimization EXCEPT
          !.findings = @ \o r.untagged,
          !.recommendations = Append(@, Msg("apply_tags", 0, "", <<>>, <<>>))]
     ELSE
       [optimization EXCEPT
          !.findings = Append(@, Msg("tagging_ok", 0, "", <<>>, <<>>))]

\* ----------------------------------------------- identify_cost_anomalies
\* datetime.utcnow().hour: the hour of a time of day given in minutes since
\* 00:00 UTC
UtcHour(minuteOfDay) == minuteOfDay \div 60

\* mutant: the window's first hour counts as outside it
OutsideBusinessHours_StartExcluded(hour) ==
  hour <= BusinessStartHour \/ hour > BusinessEndHour

\* current_time < 8 or current_time > 18
OutsideBusinessHours(hour) == hour < BusinessStartHour \/ hour > BusinessEndHour

identify_cost_anomalies(hour) ==
  LET o1 == [NewOptimization("Cost Anomaly Detection") EXCEPT
               !.findings = Append(@, Msg("simulated_analysis", 0, "", <<>>, <<>>)),
               !.recommendations =
                  <<Msg("review_cost_explorer", 0, "", <<>>, <<>>),
                    Msg("set_up_budgets", 0, "", <<>>, <<>>),
                    Msg("reserved_instances", 0, "", <<>>, <<>>)>>]
  IN IF OutsideBusinessHours(hour)
     THEN [o1 EXCEPT
             !.findings = Append(@, Msg("off_hours", 0, "", <<>>, <<>>)),
             !.potential_savings = @ + OffHoursSavings]
     ELSE o1

\* ================================================= workspace_manager.py
NewHealth == [status |-> "healthy", issues |-> <<>>, warnings |-> <<>>]

\* -------------------------------------------------- check_vpc_resources
NewVpcInfo(vpc_id) ==
  [vpc_id |-> vpc_id, subnets |-> <<>>, security_groups |-> <<>>,
   route_tables |-> <<>>, internet_gateways |-> <<>>, nat_gateways |-> <<>>,
   cidr_block |-> Absent, state |-> Absent, error |-> ""]

\* api holds the outcome of each of the four queries, in call order; the
\* first failing query ends the try block and sets 'error', keeping what
\* the earlier queries filled in.
check_vpc_resources(api, vpc_id) ==
  LET v0 == NewVpcInfo(vpc_id)
      v1 == IF api.vpcs.items # <<>>
            THEN [v0 EXCEPT !.cidr_block = api.vpcs.items[1].cidr_block,
                            !.state = api.vpcs.items[1].state]
            ELSE v0
      v2 == [v1 EXCEPT !.subnets = api.subnets.items]
      v3 == [v2 EXCEPT !.security_groups = api.sgs.items]
      v4 == [v3 EXCEPT !.nat_gateways = api.nats.items]
  IN IF api.vpcs.fault THEN [v0 EXCEPT !.error = api.vpcs.err]
     ELSE IF api.subnets.fault THEN [v1 EXCEPT !.error = api.subnets.err]
     ELSE IF api.sgs.fault THEN [v2 EXCEPT !.error = api.sgs.err]
     ELSE IF api.nats.fault THEN [v3 EXCEPT !.error = api.nats.err]
     ELSE v4

\* ------------------------------------------------- check_workspace_asgs
NewAsgInfo ==
  [auto_scaling_groups |-> <<>>, total_instances |-> 0,
   healthy_instances |-> 0, error |-> ""]

\* len([i for i in asg['Instances'] if i['HealthStatus'] == 'Healthy'])
HealthyCount(instances) ==
  Cardinality({i \in 1..Len(instances) : instances[i] = "Healthy"})

\* asg.workspace is the value of the group's Workspace tag, or Absent;
\* asg.malformed is a group record lacking a key read at lines 206-212.
RECURSIVE WorkspaceAsgLoop(_, _, _)
WorkspaceAsgLoop(info, groups, workspace) ==
  IF groups = <<>> THEN info
  ELSE LET asg == Head(groups) IN
    IF asg.workspace = Absent \/ asg.workspace # workspace
    THEN WorkspaceAsgLoop(info, Tail(groups), workspace)
    ELSE IF asg.malformed THEN [info EXCEPT !.error = "KeyError"]
    ELSE WorkspaceAsgLoop(
      [info EXCEPT
         !.auto_scaling_groups = Append(@,
            [name |-> asg.name, min_size |-> asg.min_size,
             max_size |-> asg.max_size, desired_capacity |-> asg.desired,
             current_instances |-> Len(asg.instances),
             healthy_instances |-> HealthyCount(asg.instances),
             availability_zones |-> asg.zones,
             launch_template |-> asg.launch_template]),
         !.total_instances = @ + Len(asg.instances),
         !.healthy_instances = @ + HealthyCount(asg.instances)],
      Tail(groups), workspace)

check_workspace_asgs(resp, workspace) ==
  IF resp.fault THEN [NewAsgInfo EXCEPT !.error = resp.err]
  ELSE WorkspaceAsgLoop(NewAsgInfo, resp.items, workspace)

\* --------------------------------------------------- check_s3_resources
NewS3Info(bucket_name) ==
  [bucket_name |-> bucket_name, exists |-> FALSE, versioning |-> "Unknown",
   encryption |-> "Unknown", object_count |-> 0, total_size_bytes |-> 0,
   error |-> ""]

\* versioning.get('Status', 'Suspended')
VersioningStatus(status) == IF status = Absent THEN "Suspended" ELSE status

\* The inner try (lines 248-254).  enc is the outcome of
\* get_bucket_encryption: "ok", the exception "NoSuchBucket" (raised when
\* the bucket is gone), or any other exception, among them the provider's
\* "ServerSideEncryptionConfigurationNotFoundError" for a bucket that has
\* no encryption configuration.
EncryptionStatus(enc) ==
  IF enc.kind = "ok" THEN "Enabled"
  ELSE IF enc.kind = "NoSuchBucket" THEN "Disabled"
  ELSE "Unknown"

check_s3_resources(api, bucket_name) ==
  LET s0 == NewS3Info(bucket_name)
      s1 == [s0 EXCEPT !.exists = TRUE]
      s2 == [s1 EXCEPT !.versioning = VersioningStatus(api.versioning.status)]
      s3 == [s2 EXCEPT !.encryption = EncryptionStatus(api.encryption)]
      objs == api.listing.contents
      s4 == IF api.listing.hasContents
            THEN [s3 EXCEPT
                    !.object_count = Len(objs),
                    !.total_size_bytes = SeqSum([i \in 1..Len(objs) |-> objs[i].size])]
            ELSE s3
  IN IF api.head.fault THEN [s0 EXCEPT !.error = api.head.err]
     ELSE IF api.versioning.fault THEN [s1 EXCEPT !.error = api.versioning.err]
     ELSE IF api.listing.fault THEN [s3 EXCEPT !.error = api.listing.err]
     ELSE s4

\* ------------------------------------------------- check_ssm_parameters
NewSsmInfo ==
  [parameters |-> <<>>, workspace_config_exists |-> FALSE,
   config_version |-> 0, config_data |-> Absent, error |-> ""]

\* api.get is the outcome of get_parameter for /{project}/{workspace}/config:
\* "found", "ParameterNotFound" or "fault"; validJson tells whether
\* json.loads accepts the value.
check_ssm_parameters(api) ==
  LET i1 == IF api.get.kind = "found"
            THEN [NewSsmInfo EXCEPT
                    !.workspace_config_exists = TRUE,
                    !.config_version = api.get.version,
                    !.config_data = IF api.get.validJson THEN "config"
                                    ELSE "Invalid JSON"]
            ELSE NewSsmInfo
  IN IF api.get.kind = "fault" THEN [NewSsmInfo EXCEPT !.error = api.get.err]
     ELSE IF api.describe.fault THEN [i1 EXCEPT !.error = api.describe.err]
     ELSE [i1 EXCEPT !.parameters = api.describe.items]

\* ------------------------------------------------- validate_vpc_health
\* subnet.get('type', 'unknown')
SubnetType(subnet) == IF subnet.type = Absent THEN "unknown" ELSE subnet.type

\* the for loop over vpc_info.get('subnets', []): one warning per subnet
\* whose available_ip_count is below the threshold, in subnet order
RECURSIVE LowIpWarnings(_)
LowIpWarnings(subnets) ==
  IF subnets = <<>> THEN <<>>
  ELSE (IF Head(subnets).available_ip_count < LowIpThreshold
        THEN <<Msg("low_ips", Head(subnets).subnet_id, "",
                   <<Head(subnets).available_ip_count>>, <<>>)>>
        ELSE <<>>) \o LowIpWarnings(Tail(subnets))

\* the keys of subnets_by_type after the loop
SubnetsByTypeKeys(subnets) == {SubnetType(subnets[i]) : i \in 1..Len(subnets)}

\* the for loop over expected_types = ['public', 'private']
MissingTypeWarnings(subnets) ==
  (IF "public" \notin SubnetsByTypeKeys(subnets)
   THEN <<Msg("no_subnets", 0, "public", <<>>, <<>>)>> ELSE <<>>)
  \o (IF "private" \notin SubnetsByTypeKeys(subnets)
      THEN <<Msg("no_subnets", 0, "private", <<>>, <<>>)>> ELSE <<>>)

\* mutant: the issue is recorded but the status is left 'healthy'
validate_vpc_health_NoStatus(vpc_info) ==
  LET h1 == IF vpc_info.state # "available"
            THEN [NewHealth EXCEPT
                    !.issues = Append(@, Msg("vpc_state", 0, vpc_info.state, <<>>, <<>>))]
            ELSE NewHealth
  IN [h1 EXCEPT !.warnings =
        @ \o LowIpWarnings(vpc_info.subnets) \o MissingTypeWarnings(vpc_info.subnets)]

validate_vpc_health(vpc_info) ==
  LET h1 == IF vpc_info.state # "available"
            THEN [NewHealth EXCEPT
                    !.issues = Append(@, Msg("vpc_state", 0, vpc_info.state, <<>>, <<>>)),
                    !.status = "unhealthy"]
            ELSE NewHealth
  IN [h1 EXCEPT !.warnings =
        @ \o LowIpWarnings(vpc_info.subnets) \o MissingTypeWarnings(vpc_info.subnets)]

\* ------------------------------------------------- validate_asg_health
\* mutant: the production checks are applied in every workspace
AsgWarnings_AnyTier(asg, workspace) ==
  (IF asg.healthy_instances < asg.current_instances
   THEN <<Msg("asg_unhealthy_instances", asg.name, "",
              <<asg.current_instances - asg.healthy_instances>>, <<>>)>>
   ELSE <<>>)
  \o (IF asg.current_instances # asg.desired_capacity
      THEN <<Msg("asg_capacity_mismatch", asg.name, "",
                 <<asg.current_instances, asg.desired_capacity>>, <<>>)>>
      ELSE <<>>)
  \o (IF asg.min_size < ProdMinSize
      THEN <<Msg("asg_min_size", asg.name, "", <<>>, <<>>)>> ELSE <<>>)
  \o (IF Len(asg.availability_zones) < ProdMinZones
      THEN <<Msg("asg_az_span", asg.name, "", <<>>, <<>>)>> ELSE <<>>)

\* the body of the for loop for one group (lines 371-384)
AsgWarnings(asg, workspace) ==
  (IF asg.healthy_instances < asg.current_instances
   THEN <<Msg("asg_unhealthy_instances", asg.name, "",
              <<asg.current_instances - asg.healthy_instances>>, <<>>)>>
   ELSE <<>>)
  \o (IF asg.current_instances # asg.desired_capacity
      THEN <<Msg("asg_capacity_mismatch", asg.name, "",
                 <<asg.current_instances, asg.desired_capacity>>, <<>>)>>
      ELSE <<>>)
  \o (IF workspace = "prod"
      THEN (IF asg.min_size < ProdMinSize
            THEN <<Msg("asg_min_size", asg.name, "", <<>>, <<>>)>> ELSE <<>>)
           \o (IF Len(asg.availability_zones) < ProdMinZones
               THEN <<Msg("asg_az_span", asg.name, "", <<>>, <<>>)>> ELSE <<>>)
      ELSE <<>>)

RECURSIVE AsgLoop(_, _)
AsgLoop(groups, workspace) ==
  IF groups = <<>> THEN <<>>
  ELSE AsgWarnings(Head(groups), workspace) \o AsgLoop(Tail(groups), workspace)

validate_asg_health(asg_info, workspace) ==
  IF asg_info.auto_scaling_groups = <<>>
  THEN [NewHealth EXCEPT
          !.issues = Append(@, Msg("no_asgs", 0, "", <<>>, <<>>)),
          !.status = "unhealthy"]
  ELSE [NewHealth EXCEPT
          !.warnings = @ \o AsgLoop(asg_info.auto_scaling_groups, workspace)]

\* -------------------------------------------------- validate_s3_health
\* mutant: no early return after the bucket-does-not-exist issue
validate_s3_health_NoReturn(s3_info) ==
  LET h1 == IF ~s3_info.exists
            THEN [NewHealth EXCEPT
                    !.issues = Append(@, Msg("bucket_missing", 0, "", <<>>, <<>>)),
                    !.status = "unhealthy"]
            ELSE NewHealth
  IN IF s3_info.encryption = "Disabled"
     THEN [h1 EXCEPT
             !.warnings = Append(@, Msg("encryption_disabled", 0, "", <<>>, <<>>))]
     ELSE h1

validate_s3_health(s3_info) ==
  IF ~s3_info.exists
  THEN [NewHealth EXCEPT
          !.issues = Append(@, Msg("bucket_missing", 0, "", <<>>, <<>>)),
          !.status = "unhealthy"]
  ELSE IF s3_info.encryption = "Disabled"
  THEN [NewHealth EXCEPT
          !.warnings = Append(@, Msg("encryption_disabled", 0, "", <<>>, <<>>))]
  ELSE NewHealth

\* --------------------------------------------- generate_recommendations
\* resources is the dict workspace_info['resources']: a function whose
\* domain holds the sections present.
Section(resources, key) == key \in DOMAIN resources

VpcRecommendation(resources, workspace) ==
  IF ~Section(resources, "vpc") THEN <<>>
  ELSE IF workspace \in {"dev", "test"} /\ resources["vpc"].nat_gateways # <<>>
  THEN <<Msg("remove_nat", 0, "", <<>>, <<>>)>>
  ELSE IF workspace = "prod" /\ resources["vpc"].nat_gateways = <<>>
  THEN <<Msg("add_nat", 0, "", <<>>, <<>>)>>
  ELSE <<>>

\* mutant: the dev/test rule fires from the limit itself
AsgRecommendation_FromLimit(resources, workspace) ==
  IF ~Section(resources, "autoscaling") THEN <<>>
  ELSE IF workspace \in {"dev", "test"}
          /\ resources["autoscaling"].total_instances >= DevMaxInstances
  THEN <<Msg("reduce_instances", 0, "", <<>>, <<>>)>>
  ELSE IF workspace = "prod"
          /\ resources["autoscaling"].total_instances < ProdMinInstances
  THEN <<Msg("increase_instances", 0, "", <<>>, <<>>)>>
  ELSE <<>>

AsgRecommendation(resources, workspace) ==
  IF ~Section(resources, "autoscaling") THEN <<>>
  ELSE IF workspace \in {"dev", "test"}
          /\ resources["autoscaling"].total_instances > DevMaxInstances
  THEN <<Msg("reduce_instances", 0, "", <<>>, <<>>)>>
  ELSE IF workspace = "prod"
          /\ resources["autoscaling"].total_instances < ProdMinInstances
  THEN <<Msg("increase_instances", 0, "", <<>>, <<>>)>>
  ELSE <<>>

S3Recommendation(resources, workspace) ==
  IF ~Section(resources, "s3") THEN <<>>
  ELSE IF workspace = "prod" /\ resources["s3"].versioning # "Enabled"
  THEN <<Msg("enable_versioning", 0, "", <<>>, <<>>)>>
  ELSE IF workspace \in {"dev", "test"} /\ resources["s3"].versioning = "Enabled"
  THEN <<Msg("disable_versioning", 0, "", <<>>, <<>>)>>
  ELSE <<>>

generate_recommendations(workspace_info, workspace) ==
  VpcRecommendation(workspace_info.resources, workspace)
  \o AsgRecommendation(workspace_info.resources, workspace)
  \o S3Recommendation(workspace_info.resources, workspace)
  \o (IF workspace = "default"
      THEN <<Msg("dedicated_workspaces", 0, "", <<>>, <<>>)>> ELSE <<>>)

\* ------------------------------------------------ store_workspace_status
\* len(workspace_info.get('resources', {}).get(key, {}).get(field, []))
SectionLen(resources, key, field) ==
  IF Section(resources, key) THEN Len(resources[key][field]) ELSE 0

\* mutant: the health verdicts are not consulted
StatusSummary_AlwaysHealthy(workspace_info, workspace) ==
  [workspace |-> workspace,
   last_check |-> workspace_info.timestamp,
   overall_health |-> "healthy",
   resource_counts |->
     [vpc_subnets |-> SectionLen(workspace_info.resources, "vpc", "subnets"),
      security_groups |->
        SectionLen(workspace_info.resources, "vpc", "security_groups"),
      auto_scaling_groups |->
        SectionLen(workspace_info.resources, "autoscaling", "auto_scaling_groups"),
      total_instances |->
        IF Section(workspace_info.resources, "autoscaling")
        THEN workspace_info.resources["autoscaling"].total_instances ELSE 0],
   recommendations_count |-> Len(workspace_info.recommendations)]

StatusSummary(workspace_info, workspace) ==
  [workspace |-> workspace,
   last_check |-> workspace_info.timestamp,
   overall_health |->
     IF \E k \in DOMAIN workspace_info.health_checks :
          workspace_info.health_checks[k].status = "unhealthy"
     THEN "unhealthy" ELSE "healthy",
   resource_counts |->
     [vpc_subnets |-> SectionLen(workspace_info.resources, "vpc", "subnets"),
      security_groups |->
        SectionLen(workspace_info.resources, "vpc", "security_groups"),
      auto_scaling_groups |->
        SectionLen(workspace_info.resources, "autoscaling", "auto_scaling_groups"),
      total_instances |->
        IF Section(workspace_info.resources, "autoscaling")
        THEN workspace_info.resources["autoscaling"].total_instances ELSE 0],
   recommendations_count |-> Len(workspace_info.recommendations)]

\* mutant: no try/except, a failing write leaves the function
store_workspace_status_NoCatch(store, workspace_info, project_name, workspace, put) ==
  IF put.kind = "ok"
  THEN [store |-> Append(store,
                    [name |-> <<project_name, workspace, "status">>,
                     value |-> StatusSummary(workspace_info, workspace)]),
        exc |-> ""]
  ELSE [store |-> store, exc |-> "PutParameterError"]

\* put is the outcome of the body of the try block: "ok", or a fault while
\* the summary is derived ("derive") or in ssm.put_parameter ("put").  The
\* result is the parameter store's write log after the call and the
\* exception leaving the function ("": none).
store_workspace_status(store, workspace_info, project_name, workspace, put) ==
  IF put.kind = "ok"
  THEN [store |-> Append(store,
                    [name |-> <<project_name, workspace, "status">>,
                     value |-> StatusSummary(workspace_info, workspace)]),
        exc |-> ""]
  ELSE [store |-> store, exc |-> ""]

\* ------------------------------------------------ inputs (utilization)
CpuSeries == {<<>>, <<5>>, <<10>>, <<50>>, <<80>>, <<85>>,
              <<5, 14>>, <<5, 15>>, <<80, 81>>}
CpuResponses ==
  {[fault |-> FALSE, err |-> "", dps |-> d] : d \in CpuSeries}
    \cup {[fault |-> TRUE, err |-> "GetMetricStatisticsError", dps |-> <<>>]}
InstanceTypes == {"t3.micro", "m5.large"}
InstancesAt(i) ==
  {[id |-> i, itype |-> t, cpu |-> c] : t \in InstanceTypes, c \in CpuResponses}
RECURSIVE InstanceSeqsOfLen(_)
InstanceSeqsOfLen(k) ==
  IF k = 0 THEN {<<>>}
  ELSE {Append(s, x) : s \in InstanceSeqsOfLen(k - 1), x \in InstancesAt(k)}
InstanceSeqs(n) == UNION {InstanceSeqsOfLen(k) : k \in 0..n}
UtilResponses(n) ==
  {[fault |-> FALSE, err |-> "", items |-> s] : s \in InstanceSeqs(n)}
    \cup {[fault |-> TRUE, err |-> "DescribeInstancesError", items |-> <<>>]}

\* --------------------------------------------- inputs (health validators)
Workspaces == {"dev", "test", "prod", "default", "staging"}

SubnetsAt(i) ==
  {[subnet_id |-> i, type |-> t, available_ip_count |-> c] :
     t \in {"public", "private", Absent}, c \in {9, 10}}
RECURSIVE SubnetSeqsOfLen(_)
SubnetSeqsOfLen(k) ==
  IF k = 0 THEN {<<>>}
  ELSE {Append(s, x) : s \in SubnetSeqsOfLen(k - 1), x \in SubnetsAt(k)}
\* a snapshot of check_vpc_resources; error # "" is one that failed part-way
VpcSnapshots(n) ==
  {[NewVpcInfo("vpc-1") EXCEPT !.state = st, !.subnets = s, !.error = e] :
     st \in {Absent, "available", "pending"},
     s \in UNION {SubnetSeqsOfLen(k) : k \in 0..n},
     e \in {"", "DescribeSubnetsError"}}

GroupsAt(i) ==
  {[name |-> i, min_size |-> m, max_size |-> 4, desired_capacity |-> d,
    current_instances |-> c[1], healthy_instances |-> c[2],
    availability_zones |-> z, launch_template |-> "N/A"] :
     m \in {1, 2}, d \in {1, 2}, c \in {<<1, 1>>, <<2, 1>>, <<2, 2>>},
     z \in {<<"a">>, <<"a", "b">>}}
RECURSIVE GroupSeqsOfLen(_)
GroupSeqsOfLen(k) ==
  IF k = 0 THEN {<<>>}
  ELSE {Append(s, x) : s \in GroupSeqsOfLen(k - 1), x \in GroupsAt(k)}
SumField(groups, f) == SeqSum([i \in 1..Len(groups) |-> groups[i][f]])
AsgSnapshots(n) ==
  {[auto_scaling_groups |-> g,
    total_instances |-> SumField(g, "current_instances"),
    healthy_instances |-> SumField(g, "healthy_instances"), error |-> e] :
     g \in UNION {GroupSeqsOfLen(k) : k \in 0..n},
     e \in {"", "DescribeAutoScalingGroupsError"}}

S3Snapshots ==
  {[NewS3Info("bucket") EXCEPT
      !.exists = x, !.versioning = v, !.encryption = c, !.error = e] :
     x \in BOOLEAN, v \in {"Unknown", "Enabled", "Suspended"},
     c \in {"Unknown", "Enabled", "Disabled"}, e \in {"", "HeadBucketError"}}

\* -------------------------------------------- inputs (handler runs)
Ok(items) == [fault |-> FALSE, err |-> "", items |-> items]
Fault(err) == [fault |-> TRUE, err |-> err, items |-> <<>>]

RECURSIVE SeqsOfLen(_, _)
\* sequences of length k whose i-th element is taken from At[i]
SeqsOfLen(At, k) ==
  IF k = 0 THEN {<<>>}
  ELSE {Append(s, x) : s \in SeqsOfLen(At, k - 1), x \in At[k]}
SeqsTo(At, n) == UNION {SeqsOfLen(At, k) : k \in 0..n}

\* execution contexts: with or without the 'environment' attribute, each
\* key present or absent
EnvKeys == {"PROJECT_NAME", "ENVIRONMENT", "BUCKET_NAME", "WORKSPACE", "VPC_ID"}
Context(hasEnvironment, environment) ==
  [hasEnvironment |-> hasEnvironment, environment |-> environment,
   function_name |-> "fn"]
NoEnvironment == [k \in EnvKeys |-> Absent]
CostContexts ==
  {Context(FALSE, NoEnvironment)}
  \cup {Context(TRUE, [NoEnvironment EXCEPT
                         !["PROJECT_NAME"] = p, !["ENVIRONMENT"] = e,
                         !["BUCKET_NAME"] = b]) :
          p \in {Absent, "proj"}, e \in {Absent, "prod"},
          b \in {Absent, "", "bucket"}}
WsContexts ==
  {Context(FALSE, NoEnvironment), Context(TRUE, NoEnvironment)}
  \cup {Context(TRUE, [k \in EnvKeys |->
                         CASE k = "PROJECT_NAME" -> "proj"
                           [] k = "ENVIRONMENT" -> w
                           [] k = "WORKSPACE" -> w
                           [] k = "VPC_ID" -> "vpc-1"
                           [] k = "BUCKET_NAME" -> "bucket"]) :
          w \in {"prod", "dev"}}

PipeInstancesAt ==
  [i \in 1..MaxItems |->
    {[id |-> i, itype |-> "t3.micro",
      cpu |-> [fault |-> FALSE, err |-> "", dps |-> <<5>>]],
     [id |-> i, itype |-> "m5.large",
      cpu |-> [fault |-> TRUE, err |-> "GetMetricStatisticsError", dps |-> <<>>]]}]
PipeUtilResponses ==
  {Ok(s) : s \in SeqsTo(PipeInstancesAt, MaxItems)}
    \cup {Fault("DescribeInstancesError")}

PipeAsgsAt ==
  [i \in 1..MaxItems |->
    {[name |-> i, malformed |-> m, project |-> "proj", desired |-> 3,
      min_size |-> 1, max_size |-> 3, sched |-> sc] :
       m \in {FALSE},
       sc \in {[fault |-> FALSE, err |-> "", actions |-> 0],
               [fault |-> TRUE, err |-> "DescribeScheduledActionsError", actions |-> 0]}}
    \cup {[name |-> i, malformed |-> TRUE, project |-> "proj", desired |-> 3,
           min_size |-> 1, max_size |-> 3,
           sched |-> [fault |-> FALSE, err |-> "", actions |-> 0]]}]
PipeAsgResponses ==
  {Ok(s) : s \in SeqsTo(PipeAsgsAt, MaxItems)}
    \cup {Fault("DescribeAutoScalingGroupsError")}

\* outcomes of get_bucket_lifecycle_configuration on the handler's client
Lifecycle(kind, rules, err) ==
  [kind |-> kind, rules |-> rules, err |-> err, exceptions |-> Boto3S3Exceptions]
Listing(fault, err, hasContents, contents) ==
  [fault |-> fault, err |-> err, hasContents |-> hasContents, contents |-> contents]
PipeObjectsAt ==
  [i \in 1..MaxItems |->
    {[key |-> i, size |-> 1, age_days |-> 40]}]
PipeListings ==
  {Listing(TRUE, "ListObjectsError", FALSE, <<>>), Listing(FALSE, "", FALSE, <<>>)}
    \cup {Listing(FALSE, "", TRUE, s) :
            s \in SeqsTo(PipeObjectsAt, MaxItems) \ {<<>>}}
\* every request for the empty bucket name is rejected before it is sent
\* (ParamValidationError)
PipeS3CostApis(bucket_name) ==
  IF bucket_name = ""
  THEN {[fault |-> TRUE,
         lifecycle |-> Lifecycle("fault", 0, "ParamValidationError"),
         listing |-> Listing(TRUE, "ParamValidationError", FALSE, <<>>)]}
  ELSE {[fault |-> TRUE,
         lifecycle |-> Lifecycle("fault", 0, "GetBucketLifecycleError"),
         listing |-> Listing(FALSE, "", FALSE, <<>>)]}
       \cup {[fault |-> l.fault, lifecycle |-> lc, listing |-> l] :
               lc \in {Lifecycle("rules", 1, ""),
                       Lifecycle("NoSuchLifecycleConfiguration", 0, "")},
               l \in PipeListings}

PipeTaggedAt ==
  [i \in 1..MaxItems |->
    {[id |-> i, malformed |-> FALSE, tags |-> t] :
       t \in {{"Project", "Environment", "CostCenter", "Owner"}, {"Project"}}}
    \cup {[id |-> i, malformed |-> TRUE, tags |-> {}]}]
PipeTaggingResponses ==
  {Ok(s) : s \in SeqsTo(PipeTaggedAt, MaxItems)}
    \cup {Fault("DescribeInstancesError")}

PipeHours == {0, 8, 18, 23}

PipeSubnetsAt ==
  [i \in 1..MaxItems |->
    {[subnet_id |-> i, type |-> "public", available_ip_count |-> 200]}]
PipeSgsAt ==
  [i \in 1..MaxItems |->
    {[group_id |-> i, ingress_rules |-> 1, egress_rules |-> 1]}]
PipeNatsAt ==
  [i \in 1..MaxItems |->
    {[nat_gateway_id |-> i, state |-> "available"]}]
PipeVpcApis ==
  LET vpcOk == Ok(<<[state |-> "available", cidr_block |-> "10.0.0.0/16"]>>)
      sub == {Ok(s) : s \in SeqsTo(PipeSubnetsAt, MaxItems)}
      sgs == {Ok(s) : s \in SeqsTo(PipeSgsAt, MaxItems)}
      nats == {Ok(s) : s \in SeqsTo(PipeNatsAt, MaxItems)}
      Api(v, a, b, c) == [fault |-> v.fault \/ a.fault \/ b.fault \/ c.fault,
                          vpcs |-> v, subnets |-> a, sgs |-> b, nats |-> c]
  IN {Api(Fault("DescribeVpcsError"), Ok(<<>>), Ok(<<>>), Ok(<<>>))}
     \cup {Api(vpcOk, Fault("DescribeSubnetsError"), Ok(<<>>), Ok(<<>>))}
     \cup {Api(vpcOk, a, Fault("DescribeSecurityGroupsError"), Ok(<<>>)) : a \in sub}
     \cup {Api(vpcOk, a, b, Fault("DescribeNatGatewaysError")) : a \in sub, b \in sgs}
     \cup {Api(vpcOk, a, b, c) : a \in sub, b \in sgs, c \in nats}

PipeWsAsgsAt ==
  [i \in 1..MaxItems |->
    {[name |-> i, malformed |-> m, workspace |-> "prod", min_size |-> 1,
      max_size |-> 3, desired |-> 1, instances |-> <<"Healthy">>,
      zones |-> <<"a">>, launch_template |-> "N/A"] : m \in BOOLEAN}]
PipeWsAsgResponses ==
  {Ok(s) : s \in SeqsTo(PipeWsAsgsAt, MaxItems)}
    \cup {Fault("DescribeAutoScalingGroupsError")}

PipeS3WsApis ==
  LET Call(fault, err) == [fault |-> fault, err |-> err]
      Versioning(fault, err, status) ==
        [fault |-> fault, err |-> err, status |-> status]
      Enc(kind) == [kind |-> kind]
      Api(h, v, e, l) == [fault |-> h.fault \/ v.fault \/ l.fault,
                          head |-> h, versioning |-> v, encryption |-> e,
                          listing |-> l]
      none == Listing(FALSE, "", FALSE, <<>>)
  IN {Api(Call(TRUE, "HeadBucketError"), Versioning(FALSE, "", Absent),
          Enc("ok"), none)}
     \cup {Api(Call(FALSE, ""), Versioning(TRUE, "GetBucketVersioningError", Absent),
               Enc("ok"), none)}
     \cup {Api(Call(FALSE, ""), Versioning(FALSE, "", "Enabled"), Enc(k), l) :
             k \in {"ok", "NoSuchBucket",
                    "ServerSideEncryptionConfigurationNotFoundError"},
             l \in PipeListings}

PipeParamsAt ==
  [i \in 1..MaxItems |->
    {[name |-> i, type |-> "String", version |-> 1]}]
PipeSsmApis ==
  LET Get(kind, err) ==
        [kind |-> kind, err |-> err, version |-> 1, validJson |-> TRUE]
      Api(g, d) == [fault |-> g.kind = "fault" \/ d.fault, get |-> g, describe |-> d]
  IN {Api(Get("fault", "GetParameterError"), Ok(<<>>))}
     \cup {Api(g, d) :
             g \in {Get("found", ""), Get("ParameterNotFound", "")},
             d \in {Ok(s) : s \in SeqsTo(PipeParamsAt, MaxItems)}
                     \cup {Fault("DescribeParametersError")}}

PutOutcomes ==
  {[fault |-> k # "ok", kind |-> k] : k \in {"ok", "derive", "put"}}

\* ------------------------------------------------ specification SpecUtil
NoLocals ==
  [project_name |-> Unbound, environment |-> Unbound, bucket_name |-> Unbound,
   workspace |-> Unbound, vpc_id |-> Unbound]

HandlerIdle ==
  /\ variant = "idle" /\ pc = "idle" /\ ctx = <<>> /\ locals = NoLocals
  /\ report = NoReport /\ raised = "" /\ response = NoResponse
  /\ paramStore = <<>> /\ inv = EmptyMap

UtilIdle == uIn = <<>> /\ uOut = NoResult
HealthIdle == hKind = "idle" /\ hSnap = <<>> /\ hWs = "" /\ hOut = NoVerdict
CheckIdle == cKind = "idle" /\ cIn = <<>> /\ cOut = <<>>

InitUtil ==
  /\ uIn \in UtilResponses(MaxInst) /\ uOut = NoResult
  /\ HealthIdle /\ HandlerIdle /\ CheckIdle

RunUtil ==
  /\ uIn # <<>> /\ uOut = NoResult
  /\ uOut' = check_instance_utilization(uIn)
  /\ UNCHANGED <<uIn, healthVars, handlerVars, checkVars>>

NextUtil == RunUtil
SpecUtil == InitUtil /\ [][NextUtil]_vars

\* ---------------------------------------------- specification SpecHealth
InitHealth ==
  /\ UtilIdle /\ HandlerIdle /\ CheckIdle
  /\ hOut = NoVerdict
  /\ \/ hKind = "vpc" /\ hSnap \in VpcSnapshots(MaxSubnets) /\ hWs = "prod"
     \/ hKind = "asg" /\ hSnap \in AsgSnapshots(MaxGroups) /\ hWs \in Workspaces
     \/ hKind = "s3" /\ hSnap \in S3Snapshots /\ hWs = "prod"

ValidateVpc ==
  /\ hKind = "vpc" /\ hOut = NoVerdict
  /\ hOut' = validate_vpc_health(hSnap)
  /\ UNCHANGED <<hKind, hSnap, hWs, utilVars, handlerVars, checkVars>>

ValidateAsg ==
  /\ hKind = "asg" /\ hOut = NoVerdict
  /\ hOut' = validate_asg_health(hSnap, hWs)
  /\ UNCHANGED <<hKind, hSnap, hWs, utilVars, handlerVars, checkVars>>

ValidateS3 ==
  /\ hKind = "s3" /\ hOut = NoVerdict
  /\ hOut' = validate_s3_health(hSnap)
  /\ UNCHANGED <<hKind, hSnap, hWs, utilVars, handlerVars, checkVars>>

NextHealth == ValidateVpc \/ ValidateAsg \/ ValidateS3
SpecHealth == InitHealth /\ [][NextHealth]_vars
\* ---------------------------------------------- specification SpecChecks
\* Each cost check applied on its own to one input.
\* inputs of check_tagging_compliance: instance i carries the tag keys tags
\* (an instance without 'Tags' carries none); a malformed record lacks
\* 'InstanceId'
TagSets ==
  SUBSET {"Project", "Environment", "CostCenter", "Owner"}
    \cup {{"Name"}, {"Project", "Environment", "CostCenter", "Owner", "Name"},
          {"Project", "CostCenter", "Name"}}
TaggedAt ==
  [i \in 1..MaxTagged |->
    {[id |-> i, malformed |-> FALSE, tags |-> t] : t \in TagSets}
      \cup {[id |-> i, malformed |-> TRUE, tags |-> {}]}]
TaggingResponses(n) ==
  {Ok(s) : s \in SeqsTo(TaggedAt, n)} \cup {Fault("DescribeInstancesError")}

\* input of identify_cost_anomalies: the UTC time of day of the call, in
\* minutes since 00:00
ClockTimes == 0..(24 * 60 - 1)

\* inputs of optimize_s3_storage: the client's exception classes, the
\* outcome of the lifecycle query, and the bucket: its objects in key order,
\* the objects numbered oldFrom..oldTo being 31 days old and the others 30
BucketOf(n, oldFrom, oldTo) ==
  [i \in 1..n |->
    [key |-> i, size |-> 1, age_days |-> IF i \in oldFrom..oldTo THEN 31 ELSE 30]]
StorageBuckets ==
  {BucketOf(n, r[1], IF r[2] > n THEN n ELSE r[2]) :
     n \in {0, 1, 2, MaxKeys, MaxKeys + 1, MaxKeys + 500},
     r \in {<<1, 0>>, <<1, 1>>, <<1, 40>>, <<MaxKeys + 1, MaxKeys + 500>>}}
StorageLifecycles ==
  {[kind |-> lc[1], rules |-> lc[2], err |-> lc[3], exceptions |-> x] :
     lc \in {<<"rules", 2, "">>, <<"NoSuchLifecycleConfiguration", 0, "">>,
             <<"fault", 0, "AccessDenied">>},
     x \in {Boto3S3Exceptions,
            Boto3S3Exceptions \cup {"NoSuchLifecycleConfiguration"}}}
StorageInputs ==
  {[lifecycle |-> lc, objects |-> b, listFault |-> f] :
     lc \in StorageLifecycles, b \in StorageBuckets, f \in BOOLEAN}

\* s3.list_objects_v2(Bucket=..., MaxKeys=max_keys): the first max_keys
\* objects of the bucket; no 'Contents' key when there is none
ListObjectsV2(objects, max_keys) ==
  LET n == IF Len(objects) < max_keys THEN Len(objects) ELSE max_keys
  IN Listing(FALSE, "", n > 0, SubSeq(objects, 1, n))

\* inputs of check_asg_efficiency: group i with the value of its Project
\* tag, its capacities and the outcome of describe_scheduled_actions; a
\* malformed record lacks a key the loop reads
EfficiencyGroupsAt ==
  [i \in 1..MaxGroups |->
    {[name |-> i, malformed |-> FALSE, project |-> p, desired |-> d,
      min_size |-> 1, max_size |-> 3, sched |-> sc] :
       p \in {"proj", "other", Absent}, d \in {1, 3},
       sc \in {[fault |-> FALSE, err |-> "", actions |-> 0],
               [fault |-> FALSE, err |-> "", actions |-> 2],
               [fault |-> TRUE, err |-> "DescribeScheduledActionsError",
                actions |-> 0]}}
    \cup {[name |-> i, malformed |-> TRUE, project |-> "proj", desired |-> 3,
           min_size |-> 1, max_size |-> 3,
           sched |-> [fault |-> FALSE, err |-> "", actions |-> 0]]}]
EfficiencyResponses(n) ==
  {Ok(s) : s \in SeqsTo(EfficiencyGroupsAt, n)}
    \cup {Fault("DescribeAutoScalingGroupsError")}

InitChecks ==
  /\ UtilIdle /\ HealthIdle /\ HandlerIdle
  /\ cOut = <<>>
  /\ \/ cKind = "utilization" /\ cIn \in UtilResponses(MaxInst)
     \/ cKind = "autoscaling"
        /\ cIn \in {[resp |-> x, project_name |-> "proj"] : x \in EfficiencyResponses(MaxGroups)}
     \/ cKind = "tagging" /\ cIn \in TaggingResponses(MaxTagged)
     \/ cKind = "storage" /\ cIn \in StorageInputs
     \/ cKind = "anomaly" /\ cIn \in {[time |-> t] : t \in ClockTimes}

RunTagging ==
  /\ cKind = "tagging" /\ cOut = <<>>
  /\ cOut' = <<check_tagging_compliance(cIn)>>
  /\ UNCHANGED <<cKind, cIn, utilVars, healthVars, handlerVars>>

RunAnomaly ==
  /\ cKind = "anomaly" /\ cOut = <<>>
  /\ cOut' = <<identify_cost_anomalies(UtcHour(cIn.time))>>
  /\ UNCHANGED <<cKind, cIn, utilVars, healthVars, handlerVars>>

RunStorage ==
  /\ cKind = "storage" /\ cOut = <<>>
  /\ cOut' = <<optimize_s3_storage(
                 cIn.lifecycle,
                 IF cIn.listFault THEN Listing(TRUE, "ListObjectsError", FALSE, <<>>)
                 ELSE ListObjectsV2(cIn.objects, MaxKeys))>>
  /\ UNCHANGED <<cKind, cIn, utilVars, healthVars, handlerVars>>

RunUtilization ==
  /\ cKind = "utilization" /\ cOut = <<>>
  /\ cOut' = <<check_instance_utilization(cIn)>>
  /\ UNCHANGED <<cKind, cIn, utilVars, healthVars, handlerVars>>

RunEfficiency ==
  /\ cKind = "autoscaling" /\ cOut = <<>>
  /\ cOut' = <<check_asg_efficiency(cIn.resp, cIn.project_name)>>
  /\ UNCHANGED <<cKind, cIn, utilVars, healthVars, handlerVars>>

NextChecks ==
  \/ RunUtilization
  \/ RunEfficiency
  \/ RunTagging
  \/ RunStorage
  \/ RunAnomaly
SpecChecks == InitChecks /\ [][NextChecks]_vars

\* ------------------------------------------- specification SpecRecommend
\* generate_recommendations called repeatedly on one Report.  A section is
\* present or absent; a present section carries the fields the rules read.
RecommendVpcSections ==
  {[nat_gateways |-> n] : n \in {<<>>, <<[id |-> 1, state |-> "available"]>>}}
RecommendAsgSections == {[total_instances |-> n] : n \in {0, 2, 3, 4}}
RecommendS3Sections ==
  {[versioning |-> v] : v \in {"Enabled", "Suspended", "Unknown"}}
OptionalSection(key, S) == {EmptyMap} \cup {key :> x : x \in S}
RecommendReports ==
  {[resources |-> v @@ a @@ b] :
     v \in OptionalSection("vpc", RecommendVpcSections),
     a \in OptionalSection("autoscaling", RecommendAsgSections),
     b \in OptionalSection("s3", RecommendS3Sections)}

InitRecommend ==
  /\ UtilIdle /\ HealthIdle /\ HandlerIdle
  /\ cKind = "recommend" /\ cOut = <<>>
  /\ cIn \in {[workspace_info |-> i, workspace |-> w] :
                i \in RecommendReports, w \in Workspaces}

\* the function only reads workspace_info (lines 413-440)
RunRecommend ==
  /\ cKind = "recommend" /\ Len(cOut) < MaxCalls
  /\ cOut' = Append(cOut, generate_recommendations(cIn.workspace_info, cIn.workspace))
  /\ UNCHANGED <<cKind, cIn, utilVars, healthVars, handlerVars>>

NextRecommend == RunRecommend
SpecRecommend == InitRecommend /\ [][NextRecommend]_vars

\* ================================================================ handlers
\* json.dumps(...) of a document of strings, numbers, lists and dicts
JsonDumps(doc) == [format |-> "json", doc |-> doc]

\* context.environment[key] (cost_optimizer lines 24-26): the keys read, in
\* order; the first absent one raises KeyError
CostKeys == <<"PROJECT_NAME", "ENVIRONMENT", "BUCKET_NAME">>
FirstAbsent(env, keys) ==
  LET missing == {i \in 1..Len(keys) : env[keys[i]] = Absent}
  IN IF missing = {} THEN 0 ELSE CHOOSE i \in missing : \A j \in missing : i <= j

\* context.environment.get(key, default) (workspace_manager lines 24-29)
EnvGet(env, key, default) == IF env[key] = Absent THEN default ELSE env[key]

\* optimization_results['optimizations'].append(finding_set)
AppendOptimization(results, finding_set) ==
  [results EXCEPT !.optimizations = Append(@, finding_set)]

\* workspace_info['resources'][key] = info
SetResource(info, key, value) ==
  [info EXCEPT !.resources = (key :> value) @@ @]

\* workspace_info['health_checks'][key] = verdict
SetHealth(info, key, verdict) ==
  [info EXCEPT !.health_checks = (key :> verdict) @@ @]

\* -------------------------------------------- cost_optimizer.handler
CostReadContext ==
  /\ variant = "cost" /\ pc = "start"
  /\ IF ~ctx.hasEnvironment
     THEN /\ raised' = "AttributeError" /\ pc' = "except" /\ UNCHANGED locals
     ELSE IF FirstAbsent(ctx.environment, CostKeys) # 0
     THEN /\ raised' = CostKeys[FirstAbsent(ctx.environment, CostKeys)]
          /\ pc' = "except" /\ UNCHANGED locals
     ELSE /\ locals' = [NoLocals EXCEPT
                          !.project_name = ctx.environment["PROJECT_NAME"],
                          !.environment = ctx.environment["ENVIRONMENT"],
                          !.bucket_name = ctx.environment["BUCKET_NAME"]]
          /\ pc' = "clients" /\ UNCHANGED raised
  /\ UNCHANGED <<variant, ctx, report, response, paramStore, inv, utilVars, healthVars, checkVars>>

\* lines 31-41: boto3.client(...) four times (clientsOk FALSE: one of them
\* raises), then the empty optimization_results
CostInitClients ==
  /\ variant = "cost" /\ pc = "clients"
  /\ \E clientsOk \in BOOLEAN :
       IF clientsOk
       THEN /\ report' = [timestamp |-> "now", project |-> locals.project_name,
                          environment |-> locals.environment,
                          optimizations |-> <<>>]
            /\ pc' = "util" /\ UNCHANGED raised
       ELSE /\ raised' = "NoRegionError" /\ pc' = "except" /\ UNCHANGED report
  /\ UNCHANGED <<variant, ctx, locals, response, paramStore, inv, utilVars, healthVars, checkVars>>

\* One "result = check(...); optimizations.append(result)" pair of lines
\* 44-61: a check that raises sends the handler to its except clause.
CostStep(key, input, result, next) ==
  /\ inv' = (key :> input) @@ inv
  /\ IF IsRaised(result)
     THEN /\ raised' = result.text /\ pc' = "except" /\ UNCHANGED report
     ELSE /\ report' = AppendOptimization(report, result)
          /\ pc' = next /\ UNCHANGED raised
  /\ UNCHANGED <<variant, ctx, locals, response, paramStore, utilVars, healthVars, checkVars>>

CostCheckUtil ==
  /\ variant = "cost" /\ pc = "util"
  /\ \E resp \in PipeUtilResponses :
       CostStep("util", resp, check_instance_utilization(resp), "asg")

CostCheckAsg ==
  /\ variant = "cost" /\ pc = "asg"
  /\ \E resp \in PipeAsgResponses :
       CostStep("asg", resp, check_asg_efficiency(resp, locals.project_name), "s3")

CostOptimizeS3 ==
  /\ variant = "cost" /\ pc = "s3"
  /\ \E api \in PipeS3CostApis(locals.bucket_name) :
       CostStep("s3", api, optimize_s3_storage(api.lifecycle, api.listing), "tagging")

CostCheckTagging ==
  /\ variant = "cost" /\ pc = "tagging"
  /\ \E resp \in PipeTaggingResponses :
       CostStep("tagging", resp, check_tagging_compliance(resp), "anomaly")

CostIdentifyAnomalies ==
  /\ variant = "cost" /\ pc = "anomaly"
  /\ \E hour \in PipeHours :
       CostStep("anomaly", [fault |-> FALSE, hour |-> hour],
                identify_cost_anomalies(hour), "return")

\* lines 63-68
CostReturn ==
  /\ variant = "cost" /\ pc = "return"
  /\ response' = [statusCode |-> 200, body |-> JsonDumps(report)]
  /\ pc' = "done"
  /\ UNCHANGED <<variant, ctx, locals, report, raised, paramStore, inv, utilVars, healthVars, checkVars>>

\* lines 70-75
CostExcept ==
  /\ variant = "cost" /\ pc = "except"
  /\ response' = [statusCode |-> 500, body |-> JsonDumps([error |-> raised])]
  /\ pc' = "done"
  /\ UNCHANGED <<variant, ctx, locals, report, raised, paramStore, inv, utilVars, healthVars, checkVars>>

\* ----------------------------------------- workspace_manager.handler
\* lines 24-29; context.environment missing raises at line 24, before any
\* local is assigned
WsReadContext ==
  /\ variant = "ws" /\ pc = "start"
  /\ IF ~ctx.hasEnvironment
     THEN /\ raised' = "AttributeError" /\ pc' = "except" /\ UNCHANGED locals
     ELSE /\ locals' = [NoLocals EXCEPT
                          !.workspace = EnvGet(ctx.environment, "WORKSPACE", "unknown"),
                          !.environment = EnvGet(ctx.environment, "ENVIRONMENT", "unknown"),
                          !.project_name = EnvGet(ctx.environment, "PROJECT_NAME", "unknown"),
                          !.vpc_id = EnvGet(ctx.environment, "VPC_ID", ""),
                          !.bucket_name = EnvGet(ctx.environment, "BUCKET_NAME", "")]
          /\ pc' = "clients" /\ UNCHANGED raised
  /\ UNCHANGED <<variant, ctx, report, response, paramStore, inv, utilVars, healthVars, checkVars>>

\* lines 34-50: boto3.client(...) five times (clientsOk FALSE: one of them
\* raises), then the empty workspace_info
WsInitClients ==
  /\ variant = "ws" /\ pc = "clients"
  /\ \E clientsOk \in BOOLEAN :
       IF clientsOk
       THEN /\ report' = [workspace |-> locals.workspace,
                          environment |-> locals.environment,
                          project_name |-> locals.project_name,
                          timestamp |-> "now",
                          function_name |-> ctx.function_name,
                          resources |-> EmptyMap, health_checks |-> EmptyMap,
                          recommendations |-> <<>>]
            /\ pc' = "vpc" /\ UNCHANGED raised
       ELSE /\ raised' = "NoRegionError" /\ pc' = "except" /\ UNCHANGED report
  /\ UNCHANGED <<variant, ctx, locals, response, paramStore, inv, utilVars, healthVars, checkVars>>

\* lines 53-56
WsCheckVpc ==
  /\ variant = "ws" /\ pc = "vpc"
  /\ IF locals.vpc_id # ""
     THEN \E api \in PipeVpcApis :
            LET vpc_info == check_vpc_resources(api, locals.vpc_id) IN
            /\ report' = SetHealth(SetResource(report, "vpc", vpc_info),
                                   "vpc", validate_vpc_health(vpc_info))
            /\ inv' = ("vpc" :> api) @@ inv
     ELSE UNCHANGED <<report, inv>>
  /\ pc' = "asg"
  /\ UNCHANGED <<variant, ctx, locals, raised, response, paramStore, utilVars, healthVars, checkVars>>

\* lines 59-61
WsCheckAsg ==
  /\ variant = "ws" /\ pc = "asg"
  /\ \E resp \in PipeWsAsgResponses :
       LET asg_info == check_workspace_asgs(resp, locals.workspace) IN
       /\ report' = SetHealth(SetResource(report, "autoscaling", asg_info),
                              "autoscaling",
                              validate_asg_health(asg_info, locals.workspace))
       /\ inv' = ("autoscaling" :> resp) @@ inv
  /\ pc' = "s3"
  /\ UNCHANGED <<variant, ctx, locals, raised, response, paramStore, utilVars, healthVars, checkVars>>

\* lines 64-67
WsCheckS3 ==
  /\ variant = "ws" /\ pc = "s3"
  /\ IF locals.bucket_name # ""
     THEN \E api \in PipeS3WsApis :
            LET s3_info == check_s3_resources(api, locals.bucket_name) IN
            /\ report' = SetHealth(SetResource(report, "s3", s3_info),
                                   "s3", validate_s3_health(s3_info))
            /\ inv' = ("s3" :> api) @@ inv
     ELSE UNCHANGED <<report, inv>>
  /\ pc' = "ssm"
  /\ UNCHANGED <<variant, ctx, locals, raised, response, paramStore, utilVars, healthVars, checkVars>>

\* lines 70-71
WsCheckSsm ==
  /\ variant = "ws" /\ pc = "ssm"
  /\ \E api \in PipeSsmApis :
       /\ report' = SetResource(report, "ssm", check_ssm_parameters(api))
       /\ inv' = ("ssm" :> api) @@ inv
  /\ pc' = "recommend"
  /\ UNCHANGED <<variant, ctx, locals, raised, response, paramStore, utilVars, healthVars, checkVars>>

\* line 74
WsRecommend ==
  /\ variant = "ws" /\ pc = "recommend"
  /\ report' = [report EXCEPT
                  !.recommendations = generate_recommendations(report, locals.workspace)]
  /\ pc' = "store"
  /\ UNCHANGED <<variant, ctx, locals, raised, response, paramStore, inv, utilVars, healthVars, checkVars>>

\* line 77
WsStore ==
  /\ variant = "ws" /\ pc = "store"
  /\ \E put \in PutOutcomes :
       LET r == store_workspace_status(paramStore, report, locals.project_name,
                                       locals.workspace, put) IN
       /\ paramStore' = r.store
       /\ inv' = ("store" :> put) @@ inv
       /\ IF r.exc # ""
          THEN raised' = r.exc /\ pc' = "except"
          ELSE pc' = "return" /\ UNCHANGED raised
  /\ UNCHANGED <<variant, ctx, locals, report, response, utilVars, healthVars, checkVars>>

\* lines 79-84
WsReturn ==
  /\ variant = "ws" /\ pc = "return"
  /\ response' = [statusCode |-> 200, body |-> JsonDumps(report)]
  /\ pc' = "done"
  /\ UNCHANGED <<variant, ctx, locals, report, raised, paramStore, inv, utilVars, healthVars, checkVars>>

\* lines 86-95: the body of the 500 response reads the local 'workspace';
\* while it is unbound the read raises NameError inside the except clause
\* and the exception leaves the handler (pc "escaped", nothing returned)
WsExcept ==
  /\ variant = "ws" /\ pc = "except"
  /\ IF locals.workspace = Unbound
     THEN /\ pc' = "escaped" /\ raised' = "UnboundLocalError"
          /\ UNCHANGED response
     ELSE /\ response' = [statusCode |-> 500,
                          body |-> JsonDumps([error |-> raised,
                                              workspace |-> locals.workspace,
                                              timestamp |-> "now"])]
          /\ pc' = "done" /\ UNCHANGED raised
  /\ UNCHANGED <<variant, ctx, locals, report, paramStore, inv, utilVars, healthVars, checkVars>>

\* --------------------------------------------------- specification Spec
Init ==
  /\ UtilIdle /\ HealthIdle /\ CheckIdle
  /\ \/ variant = "cost" /\ ctx \in CostContexts
     \/ variant = "ws" /\ ctx \in WsContexts
  /\ pc = "start" /\ locals = NoLocals /\ report = NoReport /\ raised = ""
  /\ response = NoResponse /\ paramStore = <<>> /\ inv = EmptyMap

Next ==
  \/ CostReadContext \/ CostInitClients \/ CostCheckUtil \/ CostCheckAsg
  \/ CostOptimizeS3 \/ CostCheckTagging \/ CostIdentifyAnomalies
  \/ CostReturn \/ CostExcept
  \/ WsReadContext \/ WsInitClients \/ WsCheckVpc \/ WsCheckAsg \/ WsCheckS3
  \/ WsCheckSsm \/ WsRecommend \/ WsStore \/ WsReturn \/ WsExcept

Spec == Init /\ [][Next]_vars

\* ================================================================ claims
About(msgs, id) == SelectSeq(msgs, LAMBDA m : m.id = id)
HasKind(msgs, kind) == \E i \in 1..Len(msgs) : msgs[i].kind = kind
Range(s) == {s[i] : i \in 1..Len(s)}

\* C1: every HealthVerdict returned by validate_vpc_health,
\* validate_asg_health and validate_s3_health has status 'unhealthy' if and
\* only if its issues list is non-empty (otherwise 'healthy'), on every
\* snapshot, also one left by a check that failed part-way; the warnings
\* never change the status.
C1_StatusIffIssues ==
  hOut # NoVerdict =>
    /\ hOut.status \in {"healthy", "unhealthy"}
    /\ (hOut.status = "unhealthy") <=> (hOut.issues # <<>>)

\* an unhealthy verdict with warnings, from a snapshot of a failed check
C1_Witness ==
  /\ hOut # NoVerdict /\ hKind = "vpc"
  /\ hSnap.error # "" /\ hSnap.state = Absent
  /\ hOut.status = "unhealthy" /\ Len(hOut.issues) = 1 /\ Len(hOut.warnings) = 3

\* C7: when the storage snapshot says the bucket does not exist,
\* validate_s3_health returns 'unhealthy' with exactly one issue and no
\* warnings whatever the encryption field is; the encryption warning never
\* appears together with the bucket-does-not-exist issue.
C7_BucketMissingShortCircuit ==
  (hKind = "s3" /\ hOut # NoVerdict) =>
    /\ ~hSnap.exists =>
         /\ hOut.status = "unhealthy"
         /\ Kinds(hOut.issues) = <<"bucket_missing">>
         /\ hOut.warnings = <<>>
    /\ ~(HasKind(hOut.issues, "bucket_missing")
         /\ HasKind(hOut.warnings, "encryption_disabled"))

C7_Witness ==
  /\ hKind = "s3" /\ hOut # NoVerdict
  /\ ~hSnap.exists /\ hSnap.encryption = "Disabled"
  /\ Len(hOut.issues) = 1

\* C9 (group of the claim's second part): min_size < 2, fewer than 2 zones,
\* all instances healthy, instance count equal to desired capacity
C9_PlainSmallGroup(g) ==
  /\ g.min_size < 2 /\ Len(g.availability_zones) < 2
  /\ g.healthy_instances = g.current_instances
  /\ g.current_instances = g.desired_capacity

\* C9: with zero groups in the autoscaling snapshot the verdict is
\* 'unhealthy' with exactly one issue and no warnings; otherwise it has no
\* issues and is 'healthy' whatever its warnings; a group with min_size < 2
\* and fewer than 2 zones, all instances healthy and as many as desired,
\* gets exactly the two warnings (min_size, AZ span) in workspace 'prod' and
\* none in any other workspace.
C9_AsgHealth ==
  (hKind = "asg" /\ hOut # NoVerdict) =>
    LET groups == hSnap.auto_scaling_groups IN
    /\ groups = <<>> =>
         /\ hOut.status = "unhealthy"
         /\ Kinds(hOut.issues) = <<"no_asgs">>
         /\ hOut.warnings = <<>>
    /\ groups # <<>> => hOut.status = "healthy" /\ hOut.issues = <<>>
    /\ \A i \in 1..Len(groups) :
         C9_PlainSmallGroup(groups[i]) =>
           Kinds(About(hOut.warnings, groups[i].name)) =
             IF hWs = "prod" THEN <<"asg_min_size", "asg_az_span">> ELSE <<>>

\* a healthy production verdict whose only warnings are the two of one group
C9_Witness ==
  /\ hKind = "asg" /\ hOut # NoVerdict /\ hWs = "prod"
  /\ Len(hSnap.auto_scaling_groups) = 1
  /\ C9_PlainSmallGroup(hSnap.auto_scaling_groups[1])
  /\ hOut.status = "healthy" /\ Len(hOut.warnings) = 2

\* C10: the instances the utilization check processed: those before the
\* first failing metrics query (none when describe_instances failed)
C10_Processed(resp) ==
  IF resp.fault THEN <<>>
  ELSE LET bad == {i \in 1..Len(resp.items) : resp.items[i].cpu.fault}
           stop == IF bad = {} THEN Len(resp.items) + 1
                   ELSE CHOOSE i \in bad : \A j \in bad : i <= j
       IN SubSeq(resp.items, 1, stop - 1)
C10_Faulted(resp) ==
  resp.fault \/ \E i \in 1..Len(resp.items) : resp.items[i].cpu.fault
C10_Low(inst) ==
  inst.cpu.dps # <<>> /\ SeqSum(inst.cpu.dps) < 10 * Len(inst.cpu.dps)
C10_High(inst) ==
  inst.cpu.dps # <<>> /\ SeqSum(inst.cpu.dps) > 80 * Len(inst.cpu.dps)

\* C10: every processed instance with average CPU < 10 adds one
\* low-utilization finding and one recommendation, with average > 80 one
\* high-utilization finding and one recommendation, otherwise (average from
\* 10 to 80, or no datapoints) nothing; potential_savings is 20 for each
\* low-utilization instance of a t3 type and nothing else; when the check
\* ran to its end and no instance produced a finding the findings are
\* exactly the one informational finding, which is absent whenever an
\* instance produced a finding (and after a fault, where the error finding
\* takes its place).
C10_Utilization ==
  uOut # NoResult =>
    LET P == C10_Processed(uIn)
        produced == \E i \in 1..Len(P) : C10_Low(P[i]) \/ C10_High(P[i])
    IN
    /\ \A i \in 1..Len(P) :
         LET f == Kinds(About(uOut.findings, P[i].id))
             r == Kinds(About(uOut.recommendations, P[i].id))
         IN IF C10_Low(P[i]) THEN f = <<"low_cpu">> /\ r = <<"downsize">>
            ELSE IF C10_High(P[i]) THEN f = <<"high_cpu">> /\ r = <<"upsize">>
            ELSE f = <<>> /\ r = <<>>
    /\ uOut.potential_savings =
         20 * Cardinality({i \in 1..Len(P) : C10_Low(P[i]) /\ IsT3(P[i].itype)})
    /\ (~C10_Faulted(uIn) /\ ~produced) => Kinds(uOut.findings) = <<"util_ok">>
    /\ (produced \/ C10_Faulted(uIn)) => ~HasKind(uOut.findings, "util_ok")

\* a low-utilization t3 instance followed by a high-utilization one
C10_Witness ==
  /\ uOut # NoResult /\ ~C10_Faulted(uIn)
  /\ Kinds(uOut.findings) = <<"low_cpu", "high_cpu">>
  /\ uOut.potential_savings = 20
\* ------------------------------------------------ claims on handler runs
CostOrder == <<"util", "asg", "s3", "tagging", "anomaly">>
CostCategories ==
  <<"EC2 Instance Utilization", "Auto Scaling Group Efficiency",
    "S3 Storage Optimization", "Tagging Compliance", "Cost Anomaly Detection">>
ErrorKinds == {"util_error", "asg_error", "s3_error", "tagging_error"}
InformationalKinds == {"util_ok", "tagging_ok", "simulated_analysis"}

FirstOf(S) == CHOOSE i \in S : \A j \in S : i <= j

\* the text of the first fault a cost check meets on its input ("": none)
FirstFaultText(key, input, project_name) ==
  CASE key = "util" ->
         IF input.fault THEN input.err
         ELSE LET bad == {i \in 1..Len(input.items) : input.items[i].cpu.fault}
              IN IF bad = {} THEN "" ELSE input.items[FirstOf(bad)].cpu.err
    [] key = "asg" ->
         IF input.fault THEN input.err
         ELSE LET bad == {i \in 1..Len(input.items) :
                            \/ input.items[i].malformed
                            \/ /\ input.items[i].project = project_name
                               /\ input.items[i].sched.fault}
              IN IF bad = {} THEN ""
                 ELSE IF input.items[FirstOf(bad)].malformed THEN "KeyError"
                 ELSE input.items[FirstOf(bad)].sched.err
    [] key = "s3" ->
         IF input.lifecycle.kind = "fault" THEN input.lifecycle.err
         ELSE IF /\ input.lifecycle.kind = "NoSuchLifecycleConfiguration"
                 /\ "NoSuchLifecycleConfiguration" \notin input.lifecycle.exceptions
         THEN "AttributeError"
         ELSE IF input.listing.fault THEN input.listing.err
         ELSE ""
    [] key = "tagging" ->
         IF input.fault THEN input.err
         ELSE IF \E i \in 1..Len(input.items) : input.items[i].malformed
         THEN "KeyError" ELSE ""
    [] key = "anomaly" -> ""

CostFailed(key) == FirstFaultText(key, inv[key], locals.project_name) # ""

\* the FindingSet a cost check returns on the input it received
CostResult(key) ==
  CASE key = "util" -> check_instance_utilization(inv[key])
    [] key = "asg" -> check_asg_efficiency(inv[key], locals.project_name)
    [] key = "s3" -> optimize_s3_storage(inv[key].lifecycle, inv[key].listing)
    [] key = "tagging" -> check_tagging_compliance(inv[key])
    [] key = "anomaly" -> identify_cost_anomalies(inv[key].hour)

\* the sections the workspace checks return on the inputs they received
WsSection(key) ==
  CASE key = "vpc" -> check_vpc_resources(inv[key], locals.vpc_id)
    [] key = "autoscaling" -> check_workspace_asgs(inv[key], locals.workspace)
    [] key = "s3" -> check_s3_resources(inv[key], locals.bucket_name)
    [] key = "ssm" -> check_ssm_parameters(inv[key])
WsFailed(key) == WsSection(key).error # ""
WsVerdict(key) ==
  CASE key = "vpc" -> validate_vpc_health(WsSection(key))
    [] key = "autoscaling" -> validate_asg_health(WsSection(key), locals.workspace)
    [] key = "s3" -> validate_s3_health(WsSection(key))
WsSectionKeys ==
  {"autoscaling", "ssm"}
    \cup (IF locals.vpc_id # "" THEN {"vpc"} ELSE {})
    \cup (IF locals.bucket_name # "" THEN {"s3"} ELSE {})

\* C2: once the handler has started its checks, whichever checks fail, the
\* invocation ends with status 200 and a complete Report: the cost handler
\* returns exactly five FindingSets in the order utilization, autoscaling
\* efficiency, storage, tagging, cost anomaly, the workspace handler returns
\* resources, health_checks and recommendations with a section for every
\* check it ran; the FindingSet or section of a check that did not fail is
\* what that check returns on its own input, whatever the other checks did.
C2_PartialFailureStillCompletes ==
  /\ (pc \in {"except", "escaped"}) => inv = EmptyMap
  /\ (pc = "done" /\ variant = "cost" /\ inv # EmptyMap) =>
       /\ response.statusCode = 200
       /\ LET opts == response.body.doc.optimizations IN
          /\ Len(opts) = 5
          /\ \A i \in 1..5 :
               /\ opts[i].category = CostCategories[i]
               /\ ~CostFailed(CostOrder[i]) => opts[i] = CostResult(CostOrder[i])
  /\ (pc = "done" /\ variant = "ws" /\ inv # EmptyMap) =>
       /\ response.statusCode = 200
       /\ LET doc == response.body.doc IN
          /\ DOMAIN doc.resources = WsSectionKeys
          /\ DOMAIN doc.health_checks = WsSectionKeys \ {"ssm"}
          /\ doc.recommendations = generate_recommendations(doc, locals.workspace)
          /\ \A k \in WsSectionKeys :
               ~WsFailed(k) =>
                 /\ doc.resources[k] = WsSection(k)
                 /\ k # "ssm" => doc.health_checks[k] = WsVerdict(k)

\* a cost run in which every check with an inventory query failed, and a
\* workspace run in which all four checks failed
C2_Witness ==
  /\ pc = "done" /\ variant = "cost" /\ response.statusCode = 200
  /\ \A i \in 1..4 : CostFailed(CostOrder[i])
C2_WitnessWs ==
  /\ pc = "done" /\ variant = "ws" /\ response.statusCode = 200
  /\ WsSectionKeys = {"vpc", "autoscaling", "s3", "ssm"}
  /\ \A k \in WsSectionKeys : WsFailed(k)

C4_AlwaysResponds ==
  /\ pc # "escaped"
  /\ pc = "done" =>
       /\ response.statusCode \in {200, 500}
       /\ response.body.format = "json"
       /\ response.statusCode = 500 => "error" \in DOMAIN response.body.doc

\* C5 (as claimed): when PROJECT_NAME, ENVIRONMENT or WORKSPACE is absent
\* from the context's environment the invocation does not fail on it: the
\* value is 'unknown' and, unless creating the clients fails or the bucket
\* name is absent, the response has status 200.
IdentityKeys(v) ==
  IF v = "cost" THEN {"PROJECT_NAME", "ENVIRONMENT"}
  ELSE {"PROJECT_NAME", "ENVIRONMENT", "WORKSPACE"}
C5_UnknownFallback ==
  (/\ pc = "done" /\ ctx.hasEnvironment
   /\ \E k \in IdentityKeys(variant) : ctx.environment[k] = Absent
   /\ raised \notin {"NoRegionError", "BUCKET_NAME"}) =>
     /\ response.statusCode = 200
     /\ ctx.environment["PROJECT_NAME"] = Absent => locals.project_name = "unknown"
     /\ ctx.environment["ENVIRONMENT"] = Absent => locals.environment = "unknown"

\* C6: once store_workspace_status has been called, whatever its outcome
\* (written, failed deriving the summary, failed writing), the handler goes
\* on to return status 200 with the Report as it was before the call: the
\* sections, verdicts and recommendations computed from the inventory.
C6_StoreIsBestEffort ==
  (variant = "ws" /\ "store" \in DOMAIN inv) =>
    /\ pc \in {"return", "done"}
    /\ inv["store"].fault => paramStore = <<>>
    /\ report.resources = [k \in WsSectionKeys |-> WsSection(k)]
    /\ report.health_checks = [k \in WsSectionKeys \ {"ssm"} |-> WsVerdict(k)]
    /\ report.recommendations = generate_recommendations(report, locals.workspace)
    /\ pc = "done" =>
         response = [statusCode |-> 200, body |-> JsonDumps(report)]

\* the write failed and the handler returned 200
C6_Witness ==
  /\ variant = "ws" /\ pc = "done" /\ "store" \in DOMAIN inv
  /\ inv["store"].kind = "put" /\ paramStore = <<>>
  /\ response.statusCode = 200
  /\ response.body.doc.recommendations # <<>>

\* C8 scenario: a finished run in which both checks that list instances
\* found none, no autoscaling group was found, and the bucket name is the
\* empty string (every storage query is rejected)
C8_EmptyInventory ==
  /\ variant = "cost" /\ pc = "done" /\ inv # EmptyMap
  /\ locals.bucket_name = ""
  /\ \A k \in {"util", "asg", "tagging"} : inv[k] = Ok(<<>>)
TotalSavings(opts) ==
  SeqSum([i \in 1..Len(opts) |-> opts[i].potential_savings])

C11_Faulted(resp) ==
  resp.fault \/ \E i \in 1..Len(resp.items) : resp.items[i].malformed
C11_Required == {"Project", "Environment", "CostCenter", "Owner"}
C11_Rank(tag) ==
  CASE tag = "Project" -> 1 [] tag = "Environment" -> 2
    [] tag = "CostCenter" -> 3 [] tag = "Owner" -> 4
C11_ListsMissing(f, inst) ==
  /\ f.kind = "missing_tags"
  /\ {f.tags[k] : k \in 1..Len(f.tags)} = C11_Required \ inst.tags
  /\ \A a, b \in 1..Len(f.tags) : a < b => C11_Rank(f.tags[a]) < C11_Rank(f.tags[b])
C11_Tagging ==
  (cKind = "tagging" /\ cOut # <<>>) =>
    LET out == cOut[1]
        insts == cIn.items
        missing == {i \in 1..Len(insts) : ~(C11_Required \subseteq insts[i].tags)}
    IN IF C11_Faulted(cIn)
       THEN Kinds(out.findings) = <<"tagging_error">>
       ELSE
         /\ \A i \in 1..Len(insts) :
              LET about == About(out.findings, insts[i].id)
              IN IF i \in missing
                 THEN Len(about) = 1 /\ C11_ListsMissing(about[1], insts[i])
                 ELSE about = <<>>
         /\ \A a, b \in 1..Len(out.findings) :
              a < b => out.findings[a].id < out.findings[b].id
         /\ HasKind(out.findings, "tagging_ok") <=> missing = {}
         /\ missing = {} => Kinds(out.findings) = <<"tagging_ok">>
         /\ Len(out.findings) = IF missing = {} THEN 1 ELSE Cardinality(missing)

\* a compliant instance followed by one missing Environment and Owner
C11_Witness ==
  /\ cKind = "tagging" /\ cOut # <<>> /\ ~C11_Faulted(cIn)
  /\ Len(cIn.items) = 2
  /\ cIn.items[1].tags = C11_Required
  /\ cIn.items[2].tags = {"Project", "CostCenter", "Name"}
  /\ Len(cOut[1].findings) = 1
  /\ cOut[1].findings[1].tags = <<"Environment", "Owner">>

\* C12: every call of generate_recommendations on the same Report and tier
\* returns the same list and leaves the Report as it was; the list holds
\* exactly the rules that fire, in the order NAT rule, instance-count rule,
\* versioning rule, default-workspace rule; a rule whose section is absent
\* and a tier outside dev, test, prod and default give nothing.
C12_Order ==
  <<"remove_nat", "add_nat", "reduce_instances", "increase_instances",
    "enable_versioning", "disable_versioning", "dedicated_workspaces">>
C12_Rank(kind) == CHOOSE i \in 1..Len(C12_Order) : C12_Order[i] = kind
C12_Fires(kind, res, w) ==
  LET devtest == w \in {"dev", "test"}
      prod == w = "prod"
      vpc == "vpc" \in DOMAIN res
      asg == "autoscaling" \in DOMAIN res
      s3 == "s3" \in DOMAIN res
  IN CASE kind = "remove_nat" -> vpc /\ devtest /\ Len(res["vpc"].nat_gateways) > 0
       [] kind = "add_nat" -> vpc /\ prod /\ Len(res["vpc"].nat_gateways) = 0
       [] kind = "reduce_instances" ->
            asg /\ devtest /\ res["autoscaling"].total_instances > 2
       [] kind = "increase_instances" ->
            asg /\ prod /\ res["autoscaling"].total_instances < 3
       [] kind = "enable_versioning" -> s3 /\ prod /\ res["s3"].versioning # "Enabled"
       [] kind = "disable_versioning" ->
            s3 /\ devtest /\ res["s3"].versioning = "Enabled"
       [] kind = "dedicated_workspaces" -> w = "default"
C12_Recommendations ==
  cKind = "recommend" =>
    /\ cIn \in {[workspace_info |-> i, workspace |-> w] :
                  i \in RecommendReports, w \in Workspaces}
    /\ \A c \in 1..Len(cOut) :
         LET recs == cOut[c]
             res == cIn.workspace_info.resources
         IN /\ recs = cOut[1]
            /\ \A k \in 1..Len(recs) : recs[k].kind \in Range(C12_Order)
            /\ \A k \in Range(C12_Order) :
                 HasKind(recs, k) <=> C12_Fires(k, res, cIn.workspace)
            /\ \A a, b \in 1..Len(recs) :
                 a < b => C12_Rank(recs[a].kind) < C12_Rank(recs[b].kind)
            /\ cIn.workspace \notin {"dev", "test", "prod", "default"} => recs = <<>>

\* called twice on a prod Report without NAT gateways, with two instances
\* and suspended versioning: three rules fire, twice the same
C12_Witness ==
  /\ cKind = "recommend" /\ Len(cOut) = 2 /\ cIn.workspace = "prod"
  /\ DOMAIN cIn.workspace_info.resources = {"vpc", "autoscaling", "s3"}
  /\ cIn.workspace_info.resources["autoscaling"].total_instances = 2
  /\ Kinds(cOut[2]) = <<"add_nat", "increase_instances", "enable_versioning">>

\* C13 (as claimed): for an existing bucket for which the provider reports
\* no encryption configuration, check_s3_resources followed by
\* validate_s3_health gives a verdict with status 'healthy' whose warnings
\* contain the encryption-disabled warning; for an existing bucket with
\* encryption enabled the warning is absent.
C13_BucketChecked ==
  /\ variant = "ws" /\ "s3" \in DOMAIN inv
  /\ ~inv["s3"].head.fault /\ ~inv["s3"].versioning.fault
C13_EncryptionWarning ==
  C13_BucketChecked =>
    LET verdict == report.health_checks["s3"]
        enc == inv["s3"].encryption.kind
    IN /\ enc = "ServerSideEncryptionConfigurationNotFoundError" =>
            /\ HasKind(verdict.warnings, "encryption_disabled")
            /\ verdict.status = "healthy"
       /\ enc = "ok" => ~HasKind(verdict.warnings, "encryption_disabled")

\* C14 (as claimed): at every UTC time of day the off-hours finding is
\* emitted, and potential_savings is 25, if and only if the time is before
\* 08:00 or after 18:00 (so at 18:30, and not at 08:00 or 17:59); otherwise
\* potential_savings is 0.
C14_TimeOfDay(h, m) == h * 60 + m
C14_OffHours ==
  (cKind = "anomaly" /\ cOut # <<>>) =>
    LET outside == \/ cIn.time < C14_TimeOfDay(8, 0)
                   \/ cIn.time > C14_TimeOfDay(18, 0)
    IN /\ HasKind(cOut[1].findings, "off_hours") <=> outside
       /\ cOut[1].potential_savings = IF outside THEN 25 ELSE 0

\* C15 (as claimed): for a bucket with no lifecycle configuration the check
\* recommends adding one, potential_savings is exactly 30, the result of the
\* lifecycle query adds no error finding and the objects are still sampled;
\* whenever the objects are sampled, the object count reported is the
\* number of sampled objects (at most MaxKeys, whatever the bucket holds),
\* and the old-objects advisory is made exactly when a sampled object is
\* older than 30 days, cites the sampled old objects and adds no savings.
C15_Sample == SubSeq(cIn.objects, 1, IF Len(cIn.objects) < 1000
                                     THEN Len(cIn.objects) ELSE 1000)
C15_SampledOld ==
  Cardinality({i \in 1..Len(C15_Sample) : C15_Sample[i].age_days > 30})
C15_SamplingReported(out) ==
  LET contents == SelectSeq(out.findings, LAMBDA f : f.kind = "bucket_contents")
      old == SelectSeq(out.recommendations, LAMBDA f : f.kind = "old_objects")
  IN /\ IF Len(C15_Sample) = 0 THEN contents = <<>>
        ELSE Len(contents) = 1 /\ contents[1].nums[1] = Len(C15_Sample)
     /\ IF C15_SampledOld = 0 THEN old = <<>>
        ELSE Len(old) = 1 /\ old[1].nums = <<C15_SampledOld>>
C15_Lifecycle ==
  (cKind = "storage" /\ cOut # <<>>) =>
    LET out == cOut[1] IN
    /\ cIn.lifecycle.kind = "NoSuchLifecycleConfiguration" =>
         /\ HasKind(out.recommendations, "add_lifecycle")
         /\ out.potential_savings = 30
         /\ ~cIn.listFault =>
              /\ ~HasKind(out.findings, "s3_error")
              /\ C15_SamplingReported(out)
    /\ (cIn.lifecycle.kind = "rules" /\ ~cIn.listFault) =>
         /\ C15_SamplingReported(out)
         /\ out.potential_savings = 0

\* C16: the groups check_asg_efficiency processed to the end of the loop
\* body: those before the first malformed record or failing
\* scheduled-actions query (none when the listing failed)
C16_GroupsDone(resp, project_name) ==
  IF resp.fault THEN <<>>
  ELSE LET bad == {i \in 1..Len(resp.items) :
                     \/ resp.items[i].malformed
                     \/ /\ resp.items[i].project = project_name
                        /\ resp.items[i].sched.fault}
           stop == IF bad = {} THEN Len(resp.items) + 1
                   ELSE CHOOSE i \in bad : \A j \in bad : i <= j
       IN SubSeq(resp.items, 1, stop - 1)
C16_Count(s, Test(_)) == Cardinality({i \in 1..Len(s) : Test(s[i])})

\* C16 (as claimed): the potential_savings of the FindingSet a cost check
\* returns, also when the check fails part-way, is never negative and is
\* the sum of the check's own triggers: 20 for each processed
\* low-utilization instance of a t3 type, 50 for each processed group
\* tagged with the project that has no scheduled actions (none for a group
\* that has some, which adds a finding), 30 when the bucket has no lifecycle
\* configuration, 25 when the time is before 08:00 or after 18:00, and 0
\* for the tagging check.
C16_Savings ==
  (cKind \in {"utilization", "autoscaling", "storage", "tagging", "anomaly"}
   /\ cOut # <<>>) =>
    LET out == cOut[1] IN
    /\ out.potential_savings >= 0
    /\ cKind = "utilization" =>
         out.potential_savings =
           20 * C16_Count(C10_Processed(cIn),
                          LAMBDA inst : C10_Low(inst) /\ IsT3(inst.itype))
    /\ cKind = "autoscaling" =>
         LET done == C16_GroupsDone(cIn.resp, cIn.project_name)
             Unscheduled(g) == g.project = cIn.project_name /\ g.sched.actions = 0
             Scheduled(g) == g.project = cIn.project_name /\ g.sched.actions > 0
         IN /\ out.potential_savings = 50 * C16_Count(done, Unscheduled)
            /\ \A i \in 1..Len(done) :
                 Scheduled(done[i]) <=>
                   HasKind(About(out.findings, done[i].name), "asg_has_schedule")
    /\ cKind = "storage" =>
         out.potential_savings =
           IF cIn.lifecycle.kind = "NoSuchLifecycleConfiguration" THEN 30 ELSE 0
    /\ cKind = "tagging" => out.potential_savings = 0
    /\ cKind = "anomaly" =>
         out.potential_savings =
           IF cIn.time < 8 * 60 \/ cIn.time > 18 * 60 THEN 25 ELSE 0

\* C17: the parameter store is written at most once per invocation, and
\* only by the call that follows generate_recommendations; the write goes to
\* /{project}/{workspace}/status and its value is a projection of the
\* Report of the invocation: overall_health is 'unhealthy' exactly when some
\* verdict of health_checks is 'unhealthy', recommendations_count is the
\* length of recommendations, and each resource count is the length of the
\* list in resources (total_instances its total_instances), 0 when the
\* section is absent.
C17_ListLen(section, field) ==
  IF section \in DOMAIN report.resources
  THEN Len(report.resources[section][field]) ELSE 0
C17_SummaryIsProjection ==
  variant = "ws" =>
    /\ Len(paramStore) <= 1
    /\ paramStore # <<>> =>
         LET written == paramStore[1]
             unhealthy == {k \in DOMAIN report.health_checks :
                             report.health_checks[k].status = "unhealthy"}
         IN /\ pc \in {"return", "done"}
            /\ report.recommendations =
                 generate_recommendations(report, locals.workspace)
            /\ written.name = <<locals.project_name, locals.workspace, "status">>
            /\ written.value.workspace = locals.workspace
            /\ written.value.overall_health =
                 IF unhealthy # {} THEN "unhealthy" ELSE "healthy"
            /\ written.value.recommendations_count = Len(report.recommendations)
            /\ written.value.resource_counts =
                 [vpc_subnets |-> C17_ListLen("vpc", "subnets"),
                  security_groups |-> C17_ListLen("vpc", "security_groups"),
                  auto_scaling_groups |->
                    C17_ListLen("autoscaling", "auto_scaling_groups"),
                  total_instances |->
                    IF "autoscaling" \in DOMAIN report.resources
                    THEN report.resources["autoscaling"].total_instances ELSE 0]
            /\ pc = "done" => response.body.doc = report

\* a finished invocation that wrote the summary of a Report holding an
\* unhealthy verdict, a subnet and a recommendation
C17_Witness ==
  /\ variant = "ws" /\ pc = "done" /\ Len(paramStore) = 1
  /\ paramStore[1].value.overall_health = "unhealthy"
  /\ paramStore[1].value.recommendations_count > 0
  /\ paramStore[1].value.resource_counts.vpc_subnets > 0
  /\ \E k \in DOMAIN report.health_checks : report.health_checks[k].status = "healthy"
====
